---------------------------- MODULE Spec2Model ----------------------------
(***************************************************************************)
(* A model of gip.py: the GIP sequence counter, the packet codec and the   *)
(* input decoder.  Python values are modelled as follows: a list is a      *)
(* sequence (Python index i is TLA+ index i + 1), an int is an integer,    *)
(* a call that may raise yields an outcome record, [exc |-> "", val |-> v] *)
(* for a normal return of v and [exc |-> "IndexError"] for a raise.        *)
(***************************************************************************)
EXTENDS Integers, Sequences, FiniteSets, TLC

VARIABLES
    seq,      \* Seq._value of the one Seq object
    ncalls,   \* number of reads of Seq.value since the initial state
    op,       \* the operation performed last
    args,     \* the inputs of that operation
    ret,      \* what that operation returned
    \* main(), from seq = Seq() on:
    pc,             \* where main() is
    store_system,   \* main's store_system
    store_rumble,   \* main's store_rumble
    store_buttons,  \* main's store_buttons
    store_numbers,  \* main's store_numbers
    exit_start,     \* main's exit_start: -1, or a reading of the clock
    now,            \* what time.time() returns, in seconds
    nwritten,       \* number of epo.write calls so far
    last_written,   \* the packet given to the last epo.write
    shown,          \* the status line printed last
    held,           \* SELECT or START was set in every INPUT report since
                    \* one that had it set
    ever_held       \* SELECT or START was set in some INPUT report

main_vars == <<pc, store_system, store_rumble, store_buttons, store_numbers,
               exit_start, now, nwritten, last_written, shown, held, ever_held>>

vars == <<seq, ncalls, op, args, ret, main_vars>>

\* main() is not running: its variables have no part in the behaviour
NoSession ==
    /\ pc = "none"
    /\ store_system = ""
    /\ store_rumble = <<>>
    /\ store_buttons = <<>>
    /\ store_numbers = <<>>
    /\ exit_start = -1
    /\ now = 0
    /\ nwritten = 0
    /\ last_written = <<>>
    /\ shown = <<>>
    /\ held = FALSE
    /\ ever_held = FALSE

---------------------------------------------------------------------------
(* Bounds of the model *)

\* next() calls explored: two full wraps of the counter and a little more
MaxCalls == 520

\* longest argument list given to make_gip_packet
MaxArgs == 2

\* packets built one after another on one Seq by the codec on its own
MaxPackets == 3

\* longest buffer given to get_bit on its own
MaxBufLen == 2

\* largest byte index given to get_bit on its own
MaxByteIndex == 4

\* longest report given to parse_input: the 41 bytes of the report main()
\* parses first
MaxReportLen == 41

\* packets the session writes in its loop: the counter wraps once
MaxWrites == 258

---------------------------------------------------------------------------
(* Python's integer operators *)

\* a & b on Python ints (unbounded two's complement)
RECURSIVE BitAnd(_, _)
BitAnd(a, b) ==
    IF a = 0 \/ b = 0 THEN 0
    ELSE IF a = -1 THEN b
    ELSE IF b = -1 THEN a
    ELSE (a % 2) * (b % 2) + 2 * BitAnd(a \div 2, b \div 2)

\* a | b on Python ints (unbounded two's complement)
RECURSIVE BitOr(_, _)
BitOr(a, b) ==
    IF a = 0 THEN b
    ELSE IF b = 0 THEN a
    ELSE IF a = -1 \/ b = -1 THEN -1
    ELSE (IF a % 2 = 1 \/ b % 2 = 1 THEN 1 ELSE 0) + 2 * BitOr(a \div 2, b \div 2)

\* a << n
Shl(a, n) == a * 2^n

---------------------------------------------------------------------------
(* Outcomes of a call *)

Return(v) == [exc |-> "", val |-> v]
Raise(e) == [exc |-> e]
Raised(o) == o.exc # ""

\* list[i] for i >= 0
Index(list, i) ==
    IF i < Len(list) THEN Return(list[i + 1]) ELSE Raise("IndexError")

\* list[i:] for i >= 0
SliceFrom(list, i) ==
    IF i >= Len(list) THEN <<>> ELSE SubSeq(list, i + 1, Len(list))

---------------------------------------------------------------------------
(* class Seq: each accessor gives the value returned and the new _value *)

Seq_init == 0

Seq_value_nowrap(v) == [ret |-> v, self |-> v + 1]

Seq_value(v) == [ret |-> v, self |-> BitAnd(v + 1, 255)]

Seq_current_value_advancing(v) == [ret |-> v, self |-> BitAnd(v + 1, 255)]

Seq_current_value(v) == [ret |-> v, self |-> v]

\* int(seq)
Seq_int(v) == Seq_value(v)

---------------------------------------------------------------------------
(* The sequence counter on its own: next() and peek() in any order *)

InitSeq ==
    /\ seq = Seq_init
    /\ ncalls = 0
    /\ NoSession
    /\ op = "init"
    /\ args = 0
    /\ ret = 0

SeqNext ==
    /\ ncalls < MaxCalls
    /\ LET o == Seq_value(seq)
       IN /\ seq' = o.self
          /\ ret' = o.ret
    /\ args' = seq
    /\ ncalls' = ncalls + 1
    /\ op' = "next"
    /\ UNCHANGED main_vars

SeqPeek ==
    /\ LET o == Seq_current_value(seq)
       IN /\ seq' = o.self
          /\ ret' = o.ret
    /\ args' = seq
    /\ op' = "peek"
    /\ UNCHANGED main_vars
    /\ UNCHANGED ncalls

NextSeq == SeqNext \/ SeqPeek

SpecSeq == InitSeq /\ [][NextSeq]_vars

\* C1: the n-th next() call (n = 0, 1, 2, ...) on a fresh counter returns
\* n mod 256, so the returned values run 0, 1, ..., 255, 0, 1, ... without a
\* skip or a repeat, and the stored counter is always in 0..255.
C1_NextReturnsNMod256 ==
    /\ seq \in 0..255
    /\ op = "next" => ret = (ncalls - 1) % 256

C1_Witness == op = "next" /\ ncalls = 258 /\ ret = 1

\* C2: peek() leaves the counter as it was and returns the value the
\* following next() would return; the counter, and with it every next()
\* result, depends on the number of next() calls alone, however many
\* peek() calls come between them.
C2_PeekIsPure ==
    /\ op = "peek" => /\ seq = args
                      /\ ret = Seq_value(seq).ret
                      /\ ret = ncalls % 256
    /\ seq = ncalls % 256

C2_Witness == op = "peek" /\ ncalls = 257 /\ ret = 1

---------------------------------------------------------------------------
(* Packet codec *)

\* class GipCmd(enum.IntEnum)
GipCmd == [Identify |-> 4, Power |-> 5, Authenticate |-> 6, Rumble |-> 9, LED |-> 10]

GIP_MOTOR_ALL == 15

\* data with data[i] = x (Python index)
SetItem(data, i, x) == [data EXCEPT ![i + 1] = x]

\* The value of keyword argument name, or its default d when it is not passed
Kwarg(kw, name, d) == IF name \in DOMAIN kw THEN kw[name] ELSE d

make_gip_packet_len_off_by_one(cmd, cargs, s) ==
    LET n == Seq_int(s)
        data == <<GipCmd[cmd], 32, n.ret, -1>> \o cargs
    IN [ret |-> SetItem(data, 3, Len(data) - 3), self |-> n.self]

\* make_gip_packet(cmd, *cargs, seq=s): the packet and the new Seq._value
make_gip_packet(cmd, cargs, s) ==
    LET n == Seq_int(s)
        data == <<GipCmd[cmd], 32, n.ret, -1>> \o cargs
    IN [ret |-> SetItem(data, 3, Len(data) - 4), self |-> n.self]

make_gip_rumble_packet_on_off_swapped(lt, rt, la, ra, s, kw) ==
    LET n == Seq_int(s)
        data == <<GipCmd.Rumble, 0, n.ret, -1, 0, GIP_MOTOR_ALL, lt, rt, la, ra,
                  Kwarg(kw, "off", 0), Kwarg(kw, "on", 255), Kwarg(kw, "repeat", 255)>>
    IN [ret |-> SetItem(data, 3, Len(data) - 4), self |-> n.self]

\* make_gip_rumble_packet(lt, rt, la, ra, seq=s, **kw): the packet and the
\* new Seq._value
make_gip_rumble_packet(lt, rt, la, ra, s, kw) ==
    LET n == Seq_int(s)
        data == <<GipCmd.Rumble, 0, n.ret, -1, 0, GIP_MOTOR_ALL, lt, rt, la, ra,
                  Kwarg(kw, "on", 255), Kwarg(kw, "off", 0), Kwarg(kw, "repeat", 255)>>
    IN [ret |-> SetItem(data, 3, Len(data) - 4), self |-> n.self]

---------------------------------------------------------------------------
(* The codec on its own: packets built one after another on one Seq *)

\* Argument bytes tried for a command
ArgBytes == {0, 20, 255}

\* All argument lists of at most MaxArgs bytes
ArgLists == UNION {[1..n -> ArgBytes] : n \in 0..MaxArgs}

\* Motor intensities tried for a rumble packet
MotorBytes == {0, 255}

\* Values tried for a keyword argument that is passed
KwBytes == {128}

\* Every way of passing some of on, off, repeat
KwargSets == UNION {[S -> KwBytes] : S \in SUBSET {"on", "off", "repeat"}}

\* The Seq handed to the builders is one of their inputs: a fresh one, or
\* one that has been read 254 times and is about to wrap
SeqStarts == {Seq_init, 254}

InitCodec ==
    /\ seq \in SeqStarts
    /\ ncalls = 0
    /\ NoSession
    /\ op = "init"
    /\ args = <<>>
    /\ ret = <<>>

BuildCommand ==
    /\ ncalls < MaxPackets
    /\ \E cmd \in DOMAIN GipCmd, cargs \in ArgLists :
        LET o == make_gip_packet(cmd, cargs, seq)
        IN /\ seq' = o.self
           /\ ret' = o.ret
           /\ args' = [cmd |-> cmd, args |-> cargs, seq |-> seq]
    /\ op' = "make_gip_packet"
    /\ UNCHANGED main_vars
    /\ ncalls' = ncalls + 1

BuildRumble ==
    /\ ncalls < MaxPackets
    /\ \E lt \in MotorBytes, rt \in MotorBytes, la \in MotorBytes, ra \in MotorBytes,
          kw \in KwargSets :
        LET o == make_gip_rumble_packet(lt, rt, la, ra, seq, kw)
        IN /\ seq' = o.self
           /\ ret' = o.ret
           /\ args' = [lt |-> lt, rt |-> rt, la |-> la, ra |-> ra, kw |-> kw, seq |-> seq]
    /\ op' = "make_gip_rumble_packet"
    /\ UNCHANGED main_vars
    /\ ncalls' = ncalls + 1

NextCodec == BuildCommand \/ BuildRumble

SpecCodec == InitCodec /\ [][NextCodec]_vars

\* C3: in every packet built by make_gip_packet (any command, any argument
\* list, the empty one included) and by make_gip_rumble_packet (any
\* parameters), byte 3 is the packet's length minus 4: the number of
\* argument bytes for a command, 9 for a rumble packet.
C3_LengthByte ==
    /\ op \in {"make_gip_packet", "make_gip_rumble_packet"} => ret[4] = Len(ret) - 4
    /\ op = "make_gip_packet" => ret[4] = Len(args.args)
    /\ op = "make_gip_rumble_packet" => ret[4] = 9

C3_Witness == op = "make_gip_packet" /\ args.args = <<>> /\ ret[4] = 0

\* C4: make_gip_rumble_packet returns exactly the 13 bytes
\* [9, 0, s, 9, 0, 15, lt, rt, la, ra, on, off, repeat], s being the value
\* one read of the counter returns, which advances the counter by one;
\* on, off and repeat are 255, 0 and 255 when not passed.
C4_RumblePacket ==
    op = "make_gip_rumble_packet" =>
        LET kw == args.kw
            on == IF "on" \in DOMAIN kw THEN kw.on ELSE 255
            off == IF "off" \in DOMAIN kw THEN kw.off ELSE 0
            repeat == IF "repeat" \in DOMAIN kw THEN kw.repeat ELSE 255
        IN /\ ret = <<9, 0, args.seq, 9, 0, 15, args.lt, args.rt, args.la, args.ra,
                      on, off, repeat>>
           /\ seq = (args.seq + 1) % 256

C4_Witness ==
    /\ op = "make_gip_rumble_packet"
    /\ DOMAIN args.kw = {}
    /\ args.seq = 255
    /\ ret = <<9, 0, 255, 9, 0, 15, 255, 0, 255, 0, 255, 0, 255>>

---------------------------------------------------------------------------
(* Signed 16-bit decoding and bit tests *)

to_signed_16_unsigned(n) == BitAnd(n, 65535)

\* to_signed_16(n)
to_signed_16(n) ==
    LET m == BitAnd(n, 65535)
    IN BitOr(m, -BitAnd(m, 32768))

\* le16(value): value[0] and value[1] raise IndexError on a list too short
le16(value) ==
    LET lo == Index(value, 0)
        hi == Index(value, 1)
    IN IF Raised(lo) THEN lo
       ELSE IF Raised(hi) THEN hi
       ELSE Return(to_signed_16(BitOr(lo.val, Shl(hi.val, 8))))

\* get_bit(array, byte, bit)
get_bit(array, byte, bit) ==
    IF byte > Len(array) THEN Return(FALSE)
    ELSE LET b == Index(array, byte)
         IN IF Raised(b) THEN b
            ELSE Return(BitAnd(b.val, Shl(1, bit)) > 0)

---------------------------------------------------------------------------
(* le16 on its own, over every pair of bytes and every int16 value *)

\* The little-endian two's-complement encoding of v in two bytes
Encode16LE(v) == <<(v % 65536) % 256, (v % 65536) \div 256>>

\* The inputs: two bytes to decode, or an int16 value to encode and decode
InitLe16 ==
    /\ seq = Seq_init
    /\ ncalls = 0
    /\ NoSession
    /\ op = "input"
    /\ args \in [bytes : (0..255) \X (0..255)] \cup [int16 : -32768..32767]
    /\ ret = Return(0)

Le16Bytes ==
    /\ op = "input"
    /\ "bytes" \in DOMAIN args
    /\ ret' = le16(args.bytes)
    /\ op' = "le16"
    /\ UNCHANGED main_vars
    /\ UNCHANGED <<seq, ncalls, args>>

Le16Encoded ==
    /\ op = "input"
    /\ "int16" \in DOMAIN args
    /\ ret' = le16(Encode16LE(args.int16))
    /\ op' = "le16_of_encoded"
    /\ UNCHANGED main_vars
    /\ UNCHANGED <<seq, ncalls, args>>

NextLe16 == Le16Bytes \/ Le16Encoded

SpecLe16 == InitLe16 /\ [][NextLe16]_vars

\* C5: for all bytes lo, hi, le16([lo, hi]) is the two's-complement signed
\* value of lo | (hi << 8): it lies in -32768..32767, encoding any int16
\* value little-endian and decoding it gives the value back, 0x7fff decodes
\* to 32767 and 0x8000 to -32768.
C5_Le16IsSigned ==
    /\ op = "le16" =>
        LET u == args.bytes[1] + 256 * args.bytes[2]
        IN /\ ret = Return(IF u >= 32768 THEN u - 65536 ELSE u)
           /\ ret.val \in -32768..32767
           /\ Encode16LE(ret.val) = args.bytes
           /\ args.bytes = <<255, 127>> => ret.val = 32767
           /\ args.bytes = <<0, 128>> => ret.val = -32768
    /\ op = "le16_of_encoded" => ret = Return(args.int16)

C5_Witness == op = "le16" /\ args.bytes = <<0, 128>> /\ ret = Return(-32768)

---------------------------------------------------------------------------
(* get_bit on its own, over short buffers and indices at and past the end *)

\* Byte values tried in a buffer: no bit, each single bit, SELECT with
\* START, all bits
BitBytes == {0, 1, 2, 4, 8, 16, 32, 64, 128, 12, 255}

\* All buffers of at most MaxBufLen bytes
Buffers == UNION {[1..n -> BitBytes] : n \in 0..MaxBufLen}

\* The inputs: a buffer, a byte index and a bit index
InitBit ==
    /\ seq = Seq_init
    /\ ncalls = 0
    /\ NoSession
    /\ op = "input"
    /\ args \in [array : Buffers, byte : 0..MaxByteIndex, bit : 0..7]
    /\ ret = Return(FALSE)

GetBit ==
    /\ op = "input"
    /\ ret' = get_bit(args.array, args.byte, args.bit)
    /\ op' = "get_bit"
    /\ UNCHANGED main_vars
    /\ UNCHANGED <<seq, ncalls, args>>

NextBit == GetBit

SpecBit == InitBit /\ [][NextBit]_vars

\* C6: get_bit(buffer, byteIndex, bitIndex) returns False, raising nothing,
\* for every byteIndex >= len(buffer) (byteIndex = len(buffer) and the empty
\* buffer included) and every bitIndex in 0..7; for byteIndex < len(buffer)
\* it returns True iff bit bitIndex of buffer[byteIndex] is set.
C6_GetBitNeverFaults ==
    op = "get_bit" =>
        IF args.byte >= Len(args.array)
        THEN ret = Return(FALSE)
        ELSE ret = Return((args.array[args.byte + 1] \div 2^args.bit) % 2 = 1)

\* What the code does instead: the index equal to the length is let through
\* to array[byte] and raises; every other index behaves as C6 says.
C6_FaultsAtLength ==
    op = "get_bit" =>
        IF args.byte = Len(args.array) THEN ret = Raise("IndexError")
        ELSE IF args.byte > Len(args.array) THEN ret = Return(FALSE)
        ELSE ret = Return((args.array[args.byte + 1] \div 2^args.bit) % 2 = 1)

---------------------------------------------------------------------------
(* Text: str.lower, the % conversions and the highlight of active() *)

\* The escape character "\033", written out
ESC == "\\033"

\* str.lower() on the names add_if is given
LowerCase ==
    [SELECT |-> "select", START |-> "start", REC |-> "rec",
     A |-> "a", B |-> "b", X |-> "x", Y |-> "y",
     L |-> "l", R |-> "r", U |-> "u", D |-> "d",
     LB |-> "lb", RB |-> "rb", SL |-> "sl", SR |-> "sr"]

lower(name) == LowerCase[name]

Digits == <<"0", "1", "2", "3", "4", "5", "6", "7", "8", "9",
            "a", "b", "c", "d", "e", "f">>

\* The digits of n >= 0 in the given base, without leading zeros
RECURSIVE ToBase(_, _)
ToBase(n, base) ==
    IF n < base THEN Digits[n + 1]
    ELSE ToBase(n \div base, base) \o Digits[(n % base) + 1]

\* text with zeros put in front until it is width characters long
RECURSIVE ZeroFill(_, _)
ZeroFill(text, width) ==
    IF Len(text) >= width THEN text ELSE ZeroFill("0" \o text, width)

Abs(n) == IF n < 0 THEN -n ELSE n

\* fmt % value, for the formats add_val is given: a label followed by one
\* conversion, "%d" or "%+05x" (sign always, zero-filled to 5 characters
\* with the sign)
Format(fmt, value) ==
    fmt.label \o
        (IF fmt.conv = "%d"
         THEN (IF value < 0 THEN "-" ELSE "") \o ToBase(Abs(value), 10)
         ELSE (IF value < 0 THEN "-" ELSE "+") \o ZeroFill(ToBase(Abs(value), 16), 4))

\* active(text)
active(text) == ESC \o "[91m" \o text \o ESC \o "[0m"

\* add_if(to, name, cond): the list after the call
add_if(to, name, cond) ==
    IF cond THEN Append(to, active(name)) ELSE Append(to, lower(name))

\* add_val(to, fmt, value): the list after the call, and the value returned
add_val(to, fmt, value) == [to |-> Append(to, Format(fmt, value)), ret |-> value]

---------------------------------------------------------------------------
(* parse_input *)

None == "None"

\* The report type of an INPUT packet
INPUT == 32

NotInput_system_gate(first) == first # 7

\* data[0] != 0x20
NotInput(first) == first # INPUT

BUTTONS_select_start_swapped ==
    << [name |-> "SELECT", byte |-> 4, bit |-> 2],
       [name |-> "START", byte |-> 4, bit |-> 3],
       [name |-> "REC", byte |-> 22, bit |-> 0],
       [name |-> "A", byte |-> 4, bit |-> 4],
       [name |-> "B", byte |-> 4, bit |-> 5],
       [name |-> "X", byte |-> 4, bit |-> 6],
       [name |-> "Y", byte |-> 4, bit |-> 7],
       [name |-> "L", byte |-> 5, bit |-> 2],
       [name |-> "R", byte |-> 5, bit |-> 3],
       [name |-> "U", byte |-> 5, bit |-> 0],
       [name |-> "D", byte |-> 5, bit |-> 1],
       [name |-> "LB", byte |-> 5, bit |-> 4],
       [name |-> "RB", byte |-> 5, bit |-> 5],
       [name |-> "SL", byte |-> 5, bit |-> 6],
       [name |-> "SR", byte |-> 5, bit |-> 7] >>

\* The add_if calls of parse_input, in the order they are made
BUTTONS ==
    << [name |-> "SELECT", byte |-> 4, bit |-> 3],
       [name |-> "START", byte |-> 4, bit |-> 2],
       [name |-> "REC", byte |-> 22, bit |-> 0],
       [name |-> "A", byte |-> 4, bit |-> 4],
       [name |-> "B", byte |-> 4, bit |-> 5],
       [name |-> "X", byte |-> 4, bit |-> 6],
       [name |-> "Y", byte |-> 4, bit |-> 7],
       [name |-> "L", byte |-> 5, bit |-> 2],
       [name |-> "R", byte |-> 5, bit |-> 3],
       [name |-> "U", byte |-> 5, bit |-> 0],
       [name |-> "D", byte |-> 5, bit |-> 1],
       [name |-> "LB", byte |-> 5, bit |-> 4],
       [name |-> "RB", byte |-> 5, bit |-> 5],
       [name |-> "SL", byte |-> 5, bit |-> 6],
       [name |-> "SR", byte |-> 5, bit |-> 7] >>

\* The format and the offset of the profile byte
PROFILE == [fmt |-> [label |-> "PRO:", conv |-> "%d"], offset |-> 34]

AXES_lt_rt_swapped ==
    << [fmt |-> [label |-> "LT:", conv |-> "%+05x"], offset |-> 8],
       [fmt |-> [label |-> "RT:", conv |-> "%+05x"], offset |-> 6],
       [fmt |-> [label |-> "LX:", conv |-> "%+05x"], offset |-> 10],
       [fmt |-> [label |-> "LY:", conv |-> "%+05x"], offset |-> 12],
       [fmt |-> [label |-> "RX:", conv |-> "%+05x"], offset |-> 14],
       [fmt |-> [label |-> "RY:", conv |-> "%+05x"], offset |-> 16] >>

\* The add_val calls of parse_input on le16 readings, in the order they are
\* made: lt, rt, lx, ly, rx, ry
AXES ==
    << [fmt |-> [label |-> "LT:", conv |-> "%+05x"], offset |-> 6],
       [fmt |-> [label |-> "RT:", conv |-> "%+05x"], offset |-> 8],
       [fmt |-> [label |-> "LX:", conv |-> "%+05x"], offset |-> 10],
       [fmt |-> [label |-> "LY:", conv |-> "%+05x"], offset |-> 12],
       [fmt |-> [label |-> "RX:", conv |-> "%+05x"], offset |-> 14],
       [fmt |-> [label |-> "RY:", conv |-> "%+05x"], offset |-> 16] >>

\* state after the first n add_if calls, given the get_bit results
RECURSIVE AddButtons(_, _)
AddButtons(bits, n) ==
    IF n = 0 THEN <<>>
    ELSE add_if(AddButtons(bits, n - 1), BUTTONS[n].name, bits[n].val)

\* numbers after the profile and the first n readings have been added
RECURSIVE AddNumbers(_, _, _)
AddNumbers(pro, words, n) ==
    IF n = 0 THEN add_val(<<>>, PROFILE.fmt, pro.val).to
    ELSE add_val(AddNumbers(pro, words, n - 1), AXES[n].fmt, words[n].val).to

\* parse_input(data): the tuple returned, or the IndexError that escapes
\* from the first subscript past the end of data
parse_input(data) ==
    LET first == Index(data, 0)
    IN IF Raised(first) THEN first
       ELSE IF NotInput(first.val) THEN Return(<< <<>>, <<>>, None >>)
       ELSE LET bits == [i \in 1..Len(BUTTONS) |->
                            get_bit(data, BUTTONS[i].byte, BUTTONS[i].bit)]
                pro == Index(data, PROFILE.offset)
                words == [i \in 1..Len(AXES) |->
                            le16(SliceFrom(data, AXES[i].offset))]
                lt == words[1]
                rt == words[2]
                lx == words[3]
                ly == words[4]
                rx == words[5]
                ry == words[6]
            IN IF \/ \E i \in 1..Len(BUTTONS) : Raised(bits[i])
                  \/ Raised(pro)
                  \/ \E i \in 1..Len(AXES) : Raised(words[i])
               THEN Raise("IndexError")
               ELSE Return(<< AddButtons(bits, Len(BUTTONS)),
                              AddNumbers(pro, words, Len(AXES)),
                              <<lx.val, ly.val, rx.val, ry.val, lt.val, rt.val>> >>)

---------------------------------------------------------------------------
(* parse_input on its own, over reports of every length up to MaxReportLen *)

\* The shortest report in which every subscript of parse_input is in range
MinFullLen == 35

\* First bytes tried: INPUT, SYSTEM, the ignored type 3, and two others
ReportTypes == {INPUT, 7, 3, 0, 255}

\* Values tried for the bytes a report family does not choose one by one
FillBytes == {0, 255}

\* Values tried for byte 22: bit 0 clear and set, alone and with the others
RecBytes == {0, 1, 254, 255}

\* Two-byte fields tried for a reading: 0, 0x7fff, 0x8000 (-32768), 0x1234
WordBytes == {<<0, 0>>, <<255, 127>>, <<0, 128>>, <<52, 18>>}

\* Reports of any length, all bytes after the first alike
UniformReports ==
    {[i \in 1..n |-> IF i = 1 THEN t ELSE f] :
        t \in ReportTypes, n \in 1..MaxReportLen, f \in FillBytes}

\* Full-length reports with chosen bytes 4, 5 and 22
ButtonReports ==
    {[i \in 1..n |-> CASE i = 1 -> t
                       [] i = 5 -> b4
                       [] i = 6 -> b5
                       [] i = 23 -> b22
                       [] OTHER -> f] :
        t \in ReportTypes, n \in {MinFullLen, MaxReportLen},
        b4 \in BitBytes, b5 \in BitBytes, b22 \in RecBytes, f \in FillBytes}

\* INPUT reports with a chosen field at each of the offsets 6, 8, ..., 16
\* and a chosen byte 34
AxisReports ==
    {[i \in 1..MaxReportLen |->
        CASE i = 1 -> INPUT
          [] i \in 7..18 -> w[((i - 7) \div 2) + 1][((i - 7) % 2) + 1]
          [] i = 35 -> p
          [] OTHER -> 0] :
        w \in [1..6 -> WordBytes], p \in FillBytes}

\* INPUT reports of zeros with one chosen byte, at each place in turn
OneByteReports ==
    {[i \in 1..MaxReportLen |-> IF i = 1 THEN INPUT ELSE IF i = k THEN b ELSE 0] :
        k \in 2..MaxReportLen, b \in BitBytes}

InitDecode ==
    /\ seq = Seq_init
    /\ ncalls = 0
    /\ NoSession
    /\ op = "input"
    /\ args \in UniformReports \cup ButtonReports \cup AxisReports \cup OneByteReports
    /\ ret = Return(<< <<>>, <<>>, None >>)

ParseInput ==
    /\ op = "input"
    /\ ret' = parse_input(args)
    /\ op' = "parse_input"
    /\ UNCHANGED main_vars
    /\ UNCHANGED <<seq, ncalls, args>>

NextDecode == ParseInput

SpecDecode == InitDecode /\ [][NextDecode]_vars

\* Bit k of byte b
BitSet(b, k) == (b \div 2^k) % 2 = 1

\* The signed 16-bit little-endian value at Python offset k of data
Signed16At(data, k) ==
    LET u == data[k + 1] + 256 * data[k + 2]
    IN IF u >= 32768 THEN u - 65536 ELSE u

\* How a flag is shown: the upper-case name, highlighted, when it is active,
\* and the lower-case name when it is not
Shown(upper, lowered, isActive) ==
    IF isActive THEN "\\033[91m" \o upper \o "\\033[0m" ELSE lowered

\* The lower-case names, in display order
AllInactive ==
    <<"select", "start", "rec", "a", "b", "x", "y",
      "l", "r", "u", "d", "lb", "rb", "sl", "sr">>

\* C7: parse_input never raises on malformed input: for every INPUT report
\* (first byte 0x20) of any length, reports shorter than 35, 23, 18 or 5
\* bytes included, it returns a result, in which every flag whose byte lies
\* beyond the end of the buffer is inactive.
C7_NeverRaises ==
    (op = "parse_input" /\ args[1] = 32) =>
        /\ ret.exc = ""
        /\ Len(ret.val[1]) = 15
        /\ Len(args) <= 4 =>
              \A i \in {1, 2, 4, 5, 6, 7} : ret.val[1][i] = AllInactive[i]
        /\ Len(args) <= 5 =>
              \A i \in 8..15 : ret.val[1][i] = AllInactive[i]
        /\ Len(args) <= 22 => ret.val[1][3] = AllInactive[3]

\* C8: for every non-empty buffer whose first byte is not 0x20, parse_input
\* returns an empty button list, an empty numeric list and None for the
\* axis tuple, whatever the length and the other bytes of the buffer; a
\* buffer holding byte 0 alone is enough for it.
C8_NotInputIsEmpty ==
    (op = "parse_input" /\ args[1] # 32) => ret = Return(<< <<>>, <<>>, "None" >>)

C8_Witness ==
    /\ op = "parse_input"
    /\ args = <<7>>
    /\ ret = Return(<< <<>>, <<>>, "None" >>)

\* C9: for every full-length INPUT report parse_input returns exactly 15
\* button entries in the order SELECT, START, REC, A, B, X, Y, L, R, U, D,
\* LB, RB, SL, SR; an entry is active iff its bit is set (SELECT byte 4 bit
\* 3, START byte 4 bit 2, REC byte 22 bit 0, A/B/X/Y byte 4 bits 4/5/6/7,
\* L/R/U/D byte 5 bits 2/3/0/1, LB/RB byte 5 bits 4/5, SL/SR byte 5 bits
\* 6/7) whatever the other bytes and bits are, and is shown as the
\* upper-case name when active and the lower-case name when not.
C9_ButtonOrderAndBits ==
    (op = "parse_input" /\ args[1] = 32 /\ Len(args) >= 35) =>
        LET b4 == args[5]
            b5 == args[6]
            b22 == args[23]
        IN /\ ret.exc = ""
           /\ ret.val[1] =
                << Shown("SELECT", "select", BitSet(b4, 3)),
                   Shown("START", "start", BitSet(b4, 2)),
                   Shown("REC", "rec", BitSet(b22, 0)),
                   Shown("A", "a", BitSet(b4, 4)),
                   Shown("B", "b", BitSet(b4, 5)),
                   Shown("X", "x", BitSet(b4, 6)),
                   Shown("Y", "y", BitSet(b4, 7)),
                   Shown("L", "l", BitSet(b5, 2)),
                   Shown("R", "r", BitSet(b5, 3)),
                   Shown("U", "u", BitSet(b5, 0)),
                   Shown("D", "d", BitSet(b5, 1)),
                   Shown("LB", "lb", BitSet(b5, 4)),
                   Shown("RB", "rb", BitSet(b5, 5)),
                   Shown("SL", "sl", BitSet(b5, 6)),
                   Shown("SR", "sr", BitSet(b5, 7)) >>

C9_Witness ==
    /\ op = "parse_input"
    /\ args[1] = 32 /\ Len(args) >= 35
    /\ args[5] = 4 /\ args[6] = 128 /\ args[23] = 254
    /\ ret.exc = ""
    /\ ret.val[1][1] = "select"
    /\ ret.val[1][2] = "\\033[91mSTART\\033[0m"
    /\ ret.val[1][3] = "rec"
    /\ ret.val[1][15] = "\\033[91mSR\\033[0m"

\* C10: for every full-length INPUT report the axis tuple is (LX, LY, RX,
\* RY, LT, RT), where LT, RT, LX, LY, RX, RY are the little-endian signed
\* 16-bit values at offsets 6, 8, 10, 12, 14, 16, and the numeric list is
\* the profile byte (offset 34, unsigned decimal), then LT, RT, LX, LY, RX,
\* RY; 0x20 followed by 40 zero bytes gives all flags inactive, profile 0,
\* six readings of 0 and the tuple (0, 0, 0, 0, 0, 0).
C10_AxesAndNumbers ==
    (op = "parse_input" /\ args[1] = 32 /\ Len(args) >= 35) =>
        LET LT == Signed16At(args, 6)
            RT == Signed16At(args, 8)
            LX == Signed16At(args, 10)
            LY == Signed16At(args, 12)
            RX == Signed16At(args, 14)
            RY == Signed16At(args, 16)
            hex == [label |-> "", conv |-> "%+05x"]
            dec == [label |-> "", conv |-> "%d"]
        IN /\ ret.exc = ""
           /\ ret.val[3] = <<LX, LY, RX, RY, LT, RT>>
           /\ ret.val[2] = << "PRO:" \o Format(dec, args[35]),
                              "LT:" \o Format(hex, LT),
                              "RT:" \o Format(hex, RT),
                              "LX:" \o Format(hex, LX),
                              "LY:" \o Format(hex, LY),
                              "RX:" \o Format(hex, RX),
                              "RY:" \o Format(hex, RY) >>
           /\ args = [i \in 1..41 |-> IF i = 1 THEN 32 ELSE 0] =>
                ret.val = << AllInactive,
                             <<"PRO:0", "LT:+0000", "RT:+0000", "LX:+0000",
                               "LY:+0000", "RX:+0000", "RY:+0000">>,
                             <<0, 0, 0, 0, 0, 0>> >>

C10_Witness ==
    /\ op = "parse_input"
    /\ args[1] = 32 /\ Len(args) >= 35
    /\ ret.exc = ""
    /\ ret.val[3] = <<-32768, 4660, 0, 32767, 32767, 0>>
    /\ ret.val[2] = <<"PRO:255", "LT:+7fff", "RT:+0000", "LX:-8000",
                      "LY:+1234", "RX:+0000", "RY:+7fff">>

\* The zero report of C10 is among the reports parsed
C10_ZeroReportParsed ==
    /\ op = "parse_input"
    /\ args = [i \in 1..41 |-> IF i = 1 THEN 32 ELSE 0]
    /\ ret.exc = ""

---------------------------------------------------------------------------
(* main(): the session, from seq = Seq() to "Done" *)

\* The 2.0 seconds of the loop test `time.time() - exit_start < 2.0`
EXIT_HOLD == 2

Min(a, b) == IF a < b THEN a ELSE b

\* " ".join(list)
RECURSIVE Join(_)
Join(list) ==
    IF Len(list) = 0 THEN ""
    ELSE IF Len(list) = 1 THEN list[1]
    ELSE list[1] \o " " \o Join(Tail(list))

\* text with spaces put in front until it is width characters long
RECURSIVE SpaceFill(_, _)
SpaceFill(text, width) ==
    IF Len(text) >= width THEN text ELSE SpaceFill(" " \o text, width)

StatusLine_advancing(first, buttons, system, numbers, s) ==
    LET c == Seq_value(s)
    IN [ret |-> <<first, Join(buttons), system, Join(numbers),
                  "seq:" \o SpaceFill(ToBase(c.ret, 10), 3)>>,
        self |-> c.self]

\* The arguments of the print call that shows the status line, and the
\* Seq._value after it: first is "" or "\r"
StatusLine(first, buttons, system, numbers, s) ==
    LET c == Seq_current_value(s)
    IN [ret |-> <<first, Join(buttons), system, Join(numbers),
                  "seq:" \o SpaceFill(ToBase(c.ret, 10), 3)>>,
        self |-> c.self]

\* [*rumble, on, off] derived from the tuple parse_input returns
new_rumble(values) ==
    LET rumble == [i \in 1..4 |-> Min(Abs(values[i] \div 128), 255)]
        on == 255 - Min(values[5] \div 4, 255)
        off == Min(values[6] \div 4, 255)
    IN rumble \o <<on, off>>

RumbleChanged_always(new, old) == TRUE

\* new_rumble != store_rumble
RumbleChanged(new, old) == new # old

KeepPolling_one_second(es, t) == es < 0 \/ t - es < 1

\* The loop test: exit_start < 0 or time.time() - exit_start < 2.0
KeepPolling(es, t) == es < 0 \/ t - es < EXIT_HOLD

\* data[4] & 0x04 or data[4] & 0x08
GestureBits(b) == BitAnd(b, 4) # 0 \/ BitAnd(b, 8) # 0

\* The exit logic: the new exit_start, t being what time.time() returns
ExitLogic(es, data, t) ==
    IF es < 0 /\ Len(data) >= 5 /\ GestureBits(data[5]) THEN t ELSE -1

SystemActive_nonzero(b) == b # 0

\* data[4] == 1
SystemActive(b) == b = 1

\* The report main() parses before the loop: [0x20] + [0] * 40
FIRST_REPORT == [i \in 1..41 |-> IF i = 1 THEN INPUT ELSE 0]

DrainPacket_last_rumble(s) ==
    make_gip_rumble_packet(255, 255, 255, 255, s, <<>>)

\* make_gip_rumble_packet(0, 0, 0, 0, seq=seq)
DrainPacket(s) == make_gip_rumble_packet(0, 0, 0, 0, s, <<>>)

---------------------------------------------------------------------------
(* What the device sends *)

Zeros(n) == [i \in 1..n |-> 0]

\* INPUT reports: nothing pressed; START; SELECT and START with LX = 0x7fff;
\* LT = 1023 and RT = 0x7fff; LT = -4 and RT = LX = -32768; START, cut
\* after byte 4
InputReports ==
    { [Zeros(41) EXCEPT ![1] = INPUT],
      [Zeros(41) EXCEPT ![1] = INPUT, ![5] = 4],
      [Zeros(41) EXCEPT ![1] = INPUT, ![5] = 12, ![11] = 255, ![12] = 127],
      [Zeros(41) EXCEPT ![1] = INPUT, ![7] = 255, ![8] = 3, ![9] = 255, ![10] = 127],
      [Zeros(41) EXCEPT ![1] = INPUT, ![7] = 252, ![8] = 255, ![10] = 128, ![12] = 128],
      [Zeros(5) EXCEPT ![1] = INPUT, ![5] = 4] }

\* SYSTEM reports: byte 4 of 0, 1, 2 and 255, and one cut before byte 4
SystemReports ==
    { [Zeros(5) EXCEPT ![1] = 7, ![5] = b] : b \in {0, 1, 2, 255} }
        \cup { [Zeros(4) EXCEPT ![1] = 7] }

\* A report of type 3, its byte 4 set
Type3Reports == { [Zeros(5) EXCEPT ![1] = 3, ![5] = 1] }

\* Reports of other types, byte 4 set
OtherReports == { [Zeros(5) EXCEPT ![1] = t, ![5] = 12] : t \in {1, 255} }

\* parse_input of each INPUT report and of the first report
Parsed == [r \in InputReports \cup {FIRST_REPORT} |-> parse_input(r)]

---------------------------------------------------------------------------
(* The steps of main() *)

\* seq = Seq(), with the assignments of lines 197 to 200
InitMain ==
    /\ seq = Seq_init
    /\ ncalls = 0
    /\ op = "init"
    /\ args = <<>>
    /\ ret = Return(None)
    /\ pc = "power"
    /\ store_system = "sys"
    /\ store_rumble = <<>>
    /\ store_buttons = <<>>
    /\ store_numbers = <<>>
    /\ exit_start = -1
    /\ now = 0
    /\ nwritten = 0
    /\ last_written = <<>>
    /\ shown = <<>>
    /\ held = FALSE
    /\ ever_held = FALSE

SendLED_first ==
    /\ pc = "power"
    /\ LET o == make_gip_packet("LED", <<0, 1, 20>>, seq)
       IN /\ seq' = o.self
          /\ last_written' = o.ret
    /\ nwritten' = nwritten + 1
    /\ ncalls' = ncalls + 1
    /\ pc' = "led"
    /\ op' = "write"
    /\ UNCHANGED <<args, ret, store_system, store_rumble, store_buttons,
                   store_numbers, exit_start, now, shown, held, ever_held>>

\* epo.write(make_gip_packet(GipCmd.Power, 0x00, seq=seq))
SendPower ==
    /\ pc = "power"
    /\ LET o == make_gip_packet("Power", <<0>>, seq)
       IN /\ seq' = o.self
          /\ last_written' = o.ret
    /\ nwritten' = nwritten + 1
    /\ ncalls' = ncalls + 1
    /\ pc' = "led"
    /\ op' = "write"
    /\ UNCHANGED <<args, ret, store_system, store_rumble, store_buttons,
                   store_numbers, exit_start, now, shown, held, ever_held>>

\* epo.write(make_gip_packet(GipCmd.LED, 0x00, 0x01, 0x14, seq=seq))
SendLED ==
    /\ pc = "led"
    /\ LET o == make_gip_packet("LED", <<0, 1, 20>>, seq)
       IN /\ seq' = o.self
          /\ last_written' = o.ret
    /\ nwritten' = nwritten + 1
    /\ ncalls' = ncalls + 1
    /\ pc' = "first_render"
    /\ op' = "write"
    /\ UNCHANGED <<args, ret, store_system, store_rumble, store_buttons,
                   store_numbers, exit_start, now, shown, held, ever_held>>

\* The first parse_input and the first status line
FirstRender ==
    /\ pc = "first_render"
    /\ LET p == Parsed[FIRST_REPORT].val
           line == StatusLine("", p[1], store_system, p[2], seq)
       IN /\ store_buttons' = p[1]
          /\ store_numbers' = p[2]
          /\ shown' = line.ret
          /\ seq' = line.self
    /\ pc' = "test"
    /\ op' = "render"
    /\ UNCHANGED <<ncalls, args, ret, store_system, store_rumble, exit_start,
                   now, nwritten, last_written, held, ever_held>>

\* The test of the while loop
LoopTest ==
    /\ pc = "test"
    /\ pc' = IF KeepPolling(exit_start, now) THEN "read" ELSE "drain"
    /\ op' = "test"
    /\ args' = <<>>
    /\ UNCHANGED <<seq, ncalls, ret, store_system, store_rumble, store_buttons,
                   store_numbers, exit_start, now, nwritten, last_written,
                   shown, held, ever_held>>

HandleTimeout_cancels ==
    /\ pc = "read"
    /\ pc' = "test"
    /\ op' = "timeout"
    /\ exit_start' = -1
    /\ now' = 0
    /\ UNCHANGED <<seq, ncalls, args, ret, store_system, store_rumble,
                   store_buttons, store_numbers, nwritten,
                   last_written, shown, held, ever_held>>

\* epi.read raises USBTimeoutError: continue
HandleTimeout ==
    /\ pc = "read"
    /\ pc' = "test"
    /\ op' = "timeout"
    /\ UNCHANGED <<seq, ncalls, args, ret, store_system, store_rumble,
                   store_buttons, store_numbers, exit_start, now, nwritten,
                   last_written, shown, held, ever_held>>

\* data[0] == 0x03: continue
HandleType3 ==
    /\ pc = "read"
    /\ \E data \in Type3Reports : args' = data
    /\ pc' = "test"
    /\ op' = "report"
    /\ UNCHANGED <<seq, ncalls, ret, store_system, store_rumble, store_buttons,
                   store_numbers, exit_start, now, nwritten, last_written,
                   shown, held, ever_held>>

\* data[0] == 0x07: store_system from data[4], then the status line; a
\* report without a byte 4 raises IndexError, which ends main()
HandleSystem ==
    /\ pc = "read"
    /\ \E data \in SystemReports :
        LET b == Index(data, 4)
        IN /\ args' = data
           /\ IF Raised(b)
              THEN /\ pc' = "raised"
                   /\ ret' = b
                   /\ UNCHANGED <<seq, store_system, shown>>
              ELSE LET system == IF SystemActive(b.val) THEN active("SYS") ELSE "sys"
                       line == StatusLine("\\r", store_buttons, system,
                                          store_numbers, seq)
                   IN /\ store_system' = system
                      /\ shown' = line.ret
                      /\ seq' = line.self
                      /\ pc' = "test"
                      /\ UNCHANGED ret
    /\ op' = "report"
    /\ UNCHANGED <<ncalls, store_rumble, store_buttons, store_numbers,
                   exit_start, now, nwritten, last_written, held, ever_held>>

\* data[0] == 0x20: parse_input, the rumble test code, the exit logic, then
\* the status line; an IndexError of parse_input ends main().  A clock
\* reading is used only in a difference with exit_start, so the clock is
\* read from the moment the timer is cancelled: now is 0 while no timer runs.
HandleInput ==
    /\ pc = "read"
    /\ \E data \in InputReports :
        LET parsed == Parsed[data]
        IN /\ args' = data
           /\ IF Raised(parsed)
              THEN /\ pc' = "raised"
                   /\ ret' = parsed
                   /\ UNCHANGED <<seq, ncalls, store_rumble, store_buttons,
                                  store_numbers, exit_start, now, nwritten,
                                  last_written, shown, held, ever_held>>
              ELSE LET inp == parsed.val[1]
                       numbers == parsed.val[2]
                       values == parsed.val[3]
                       new == new_rumble(values)
                       send == RumbleChanged(new, store_rumble)
                       o == make_gip_rumble_packet(new[1], new[2], new[3], new[4], seq,
                                                   [on |-> new[5], off |-> new[6]])
                       s == IF send THEN o.self ELSE seq
                       line == StatusLine("\\r", inp, store_system, numbers, s)
                       gesture == Len(data) >= 5 /\ (BitSet(data[5], 2) \/ BitSet(data[5], 3))
                   IN /\ send => nwritten < MaxWrites
                      /\ store_buttons' = inp
                      /\ store_numbers' = numbers
                      /\ IF send
                         THEN /\ last_written' = o.ret
                              /\ nwritten' = nwritten + 1
                              /\ ncalls' = ncalls + 1
                              /\ store_rumble' = new
                         ELSE UNCHANGED <<last_written, nwritten, ncalls, store_rumble>>
                      /\ exit_start' = ExitLogic(exit_start, data, now)
                      /\ now' = IF exit_start' < 0 THEN 0 ELSE now
                      /\ shown' = line.ret
                      /\ seq' = line.self
                      /\ held' = gesture
                      /\ ever_held' = (ever_held \/ gesture)
                      /\ pc' = "test"
                      /\ UNCHANGED ret
    /\ op' = "report"
    /\ UNCHANGED store_system

\* Any other data[0]: the hex dump, then the status line
HandleOther ==
    /\ pc = "read"
    /\ \E data \in OtherReports : args' = data
    /\ LET line == StatusLine("\\r", store_buttons, store_system, store_numbers, seq)
       IN /\ shown' = line.ret
          /\ seq' = line.self
    /\ pc' = "test"
    /\ op' = "report"
    /\ UNCHANGED <<ncalls, ret, store_system, store_rumble, store_buttons,
                   store_numbers, exit_start, now, nwritten, last_written,
                   held, ever_held>>

\* After the loop: the zero rumble packet, then "Done"
Drain ==
    /\ pc = "drain"
    /\ LET o == DrainPacket(seq)
       IN /\ seq' = o.self
          /\ last_written' = o.ret
    /\ nwritten' = nwritten + 1
    /\ ncalls' = ncalls + 1
    /\ pc' = "exited"
    /\ op' = "write"
    /\ UNCHANGED <<args, ret, store_system, store_rumble, store_buttons,
                   store_numbers, exit_start, now, shown, held, ever_held>>

\* A second passes.  Time matters to main() only while a timer runs and the
\* loop test has not yet seen 2.0 seconds: seconds passing at other times
\* change nothing main() can read.
Tick ==
    /\ pc \in {"test", "read"}
    /\ exit_start >= 0
    /\ now - exit_start < EXIT_HOLD
    /\ now' = now + 1
    /\ UNCHANGED <<seq, ncalls, op, args, ret, pc, store_system, store_rumble,
                   store_buttons, store_numbers, exit_start, nwritten,
                   last_written, shown, held, ever_held>>

\* A step of main() itself
Step ==
    \/ SendPower
    \/ SendLED
    \/ FirstRender
    \/ LoopTest
    \/ HandleTimeout
    \/ HandleType3
    \/ HandleSystem
    \/ HandleInput
    \/ HandleOther
    \/ Drain

Next == Step \/ Tick

Spec == InitMain /\ [][Next]_vars

\* main() always takes its next step (a read returns or times out), and
\* time passes
FairSpec == Spec /\ WF_vars(Step) /\ SF_vars(Tick)

---------------------------------------------------------------------------
(* Claims about the session *)

\* The step handles the INPUT report args' without raising
InputHandled == pc = "read" /\ op' = "report" /\ args'[1] = 32 /\ pc' = "test"

\* SELECT (byte 4 bit 3) or START (byte 4 bit 2) is set in data
GestureIn(data) == Len(data) >= 5 /\ (BitSet(data[5], 3) \/ BitSet(data[5], 2))

\* The rumble packet with sequence byte s and the six parameters p
RumblePacketOf(s, p) == <<9, 0, s, 9, 0, 15, p[1], p[2], p[3], p[4], p[5], p[6], 255>>

\* C11: while polling, handling an INPUT report writes a rumble packet if
\* and only if the parameters derived from the report (four motor values,
\* on, off) differ from those of the rumble command sent last; the
\* parameters are then the stored ones, so a second report deriving the
\* same parameters writes nothing; and the stored parameters change only
\* when a packet is written.
C11_RumbleDedup ==
    [][/\ InputHandled =>
            LET params == new_rumble(Parsed[args'].val[3])
            IN /\ nwritten' = nwritten + 1 <=> params # store_rumble
               /\ nwritten' = nwritten <=> params = store_rumble
               /\ nwritten' = nwritten + 1 =>
                     last_written' = RumblePacketOf(seq, params)
               /\ nwritten' = nwritten => last_written' = last_written
               /\ store_rumble' = params
       /\ store_rumble' # store_rumble => InputHandled /\ nwritten' = nwritten + 1
      ]_vars

\* START twice: one rumble packet after Power and LED, on the first report
C11_Witness ==
    /\ op = "report"
    /\ args = [i \in 1..41 |-> IF i = 1 THEN 32 ELSE IF i = 5 THEN 4 ELSE 0]
    /\ held
    /\ exit_start = -1
    /\ nwritten = 3
    /\ store_rumble = <<0, 0, 0, 0, 255, 0>>
    /\ last_written = <<9, 0, 2, 9, 0, 15, 0, 0, 0, 0, 255, 0, 255>>

\* C12: if an INPUT report with SELECT or START set starts the hold-timer
\* and SELECT or START stays set in every later INPUT report (timeouts and
\* other reports may come between), then, as time passes, the session
\* leaves the loop, writes the zero rumble packet and reaches the end of
\* main() -- here: unless an exception ends main() first.
C12_HeldLeadsToExit ==
    <>[]held => <>(pc \in {"exited", "raised"})

\* C13: on every INPUT report, if SELECT or START is set and no timer runs
\* the timer starts at the current time; if SELECT or START is set and a
\* timer runs it keeps running, its start time unchanged; if neither is set
\* the timer is cancelled.
C13_TimerRule ==
    [][InputHandled =>
          /\ (GestureIn(args') /\ exit_start < 0) => exit_start' = now
          /\ (GestureIn(args') /\ exit_start >= 0) => exit_start' = exit_start
          /\ ~GestureIn(args') => exit_start' = -1
      ]_vars

\* What the exit logic does instead: a report with SELECT or START set
\* cancels a timer that runs
C13_HeldReportToggles ==
    [][InputHandled =>
          /\ (GestureIn(args') /\ exit_start < 0) => exit_start' = now
          /\ (GestureIn(args') /\ exit_start >= 0) => exit_start' = -1
          /\ ~GestureIn(args') => exit_start' = -1
      ]_vars

\* C14: for every INPUT report all derived rumble parameters are in 0..255,
\* and so is every byte of every packet written.
C14_RumbleBytesInRange ==
    /\ \A i \in 1..Len(store_rumble) : store_rumble[i] \in 0..255
    /\ \A i \in 1..Len(last_written) : last_written[i] \in 0..255

\* C15: the session leaves the loop only while the hold-timer runs and at
\* least 2.0 seconds after it was started; a session in which no INPUT
\* report had SELECT or START set never leaves the loop.
C15_ExitOnlyAfterHold ==
    pc \in {"drain", "exited"} =>
        /\ exit_start >= 0
        /\ now - exit_start >= 2
        /\ ever_held

C15_Witness == pc = "exited" /\ exit_start >= 0 /\ now - exit_start = 2 /\ ever_held

\* C16: whenever main() has ended after its loop, the packet written last
\* is the zero rumble packet [9, 0, s, 9, 0, 15, 0, 0, 0, 0, 255, 0, 255];
\* it is written by the one step that follows the loop, whatever the
\* parameters sent last were, and nothing is read or written after it.
C16_ZeroRumbleLast ==
    /\ pc = "drain" => ENABLED Drain
    /\ pc = "exited" =>
          /\ op = "write"
          /\ last_written = <<9, 0, (nwritten - 1) % 256, 9, 0, 15, 0, 0, 0, 0, 255, 0, 255>>
          /\ seq = nwritten % 256
          /\ ~ENABLED Next

\* The parameters sent last were those of the zero rumble packet already
C16_Witness ==
    /\ pc = "exited"
    /\ store_rumble = <<0, 0, 0, 0, 255, 0>>
    /\ nwritten = 4
    /\ last_written = <<9, 0, 3, 9, 0, 15, 0, 0, 0, 0, 255, 0, 255>>

\* The step handles the SYSTEM report args', which has a byte 4
SystemHandled ==
    pc = "read" /\ op' = "report" /\ args'[1] = 7 /\ Len(args') >= 5

\* C17: on every SYSTEM report the indicator becomes the active one if byte
\* 4 is nonzero and the inactive one if it is 0; it changes on no other
\* report.
C17_NonzeroIsActive ==
    [][/\ SystemHandled =>
            store_system' = IF args'[5] # 0 THEN "\\033[91mSYS\\033[0m" ELSE "sys"
       /\ store_system' # store_system => SystemHandled
      ]_vars

\* C17, amended: on every SYSTEM report that has a byte 4 the indicator
\* becomes the active one if byte 4 is 1 and the inactive one for every
\* other value; it changes on no other report, nor on a SYSTEM report too
\* short to have a byte 4, which raises IndexError.
C17_OneIsActive ==
    [][/\ SystemHandled =>
            store_system' = IF args'[5] = 1 THEN "\\033[91mSYS\\033[0m" ELSE "sys"
       /\ store_system' # store_system => SystemHandled
       /\ (pc = "read" /\ op' = "report" /\ args'[1] = 7 /\ Len(args') < 5) =>
            pc' = "raised" /\ ret' = [exc |-> "IndexError"]
      ]_vars

\* A SYSTEM report with byte 4 of 255 has left the indicator the inactive one
C17_Witness ==
    /\ op = "report"
    /\ args = <<7, 0, 0, 0, 255>>
    /\ store_system = "sys"
    /\ shown[3] = "sys"

\* C18: the first two packets written are Power, [5, 0x20, 0, 1, 0], and
\* LED, [10, 0x20, 1, 3, 0, 1, 0x14], in this order, before any report is
\* read and before any rumble packet.
C18_PowerThenLED ==
    /\ nwritten = 0 => pc = "power" /\ op = "init"
    /\ nwritten = 1 => pc = "led" /\ op = "write" /\ last_written = <<5, 32, 0, 1, 0>>
    /\ nwritten = 2 => last_written = <<10, 32, 1, 3, 0, 1, 20>>
    /\ (pc = "read" \/ op \in {"report", "timeout"}) => nwritten >= 2

C18_Witness == pc = "read" /\ nwritten = 2 /\ last_written = <<10, 32, 1, 3, 0, 1, 20>>

\* C19: a read timeout and any report that is not an INPUT report write
\* nothing and leave the hold-timer, the parameters sent last, the counter
\* and the stored button and numeric lists unchanged; a timeout and a
\* report of type 3 leave the system indicator and the status line
\* unchanged too, and after a timeout the loop goes on.
C19_OnlyInputActs ==
    [][(pc = "read" /\ (op' = "timeout" \/ (op' = "report" /\ args'[1] # 32))) =>
          /\ nwritten' = nwritten
          /\ last_written' = last_written
          /\ exit_start' = exit_start
          /\ now' = now
          /\ store_rumble' = store_rumble
          /\ seq' = seq
          /\ ncalls' = ncalls
          /\ store_buttons' = store_buttons
          /\ store_numbers' = store_numbers
          /\ (op' = "timeout" \/ args'[1] = 3) =>
                /\ store_system' = store_system
                /\ shown' = shown
                /\ pc' = "test"
      ]_vars

\* A timeout while the timer runs, one second after its start
C19_Witness == op = "timeout" /\ pc = "test" /\ exit_start >= 0 /\ now - exit_start = 1

\* C20: the k-th packet written (k = 0, 1, 2, ...) carries k mod 256 at
\* index 2; the counter is read once per packet written and by nothing
\* else, the status line included; and while the loop runs the status line
\* shows as seq the number of packets written so far, modulo 256.
C20_SequenceOnTheWire ==
    /\ seq = nwritten % 256
    /\ ncalls = nwritten
    /\ nwritten > 0 => last_written[3] = (nwritten - 1) % 256
    /\ pc \in {"test", "read"} =>
          shown[5] = "seq:" \o SpaceFill(ToBase(nwritten % 256, 10), 3)

\* The 257th packet carries 0 again, and the status line shows 1
C20_Witness ==
    /\ pc = "test"
    /\ nwritten = 257
    /\ last_written[3] = 0
    /\ seq = 1
    /\ shown[5] = "seq:  1"

===========================================================================
